---------------------------- MODULE Spec2Model ----------------------------
(***************************************************************************)
(* Model of pkg/config/configuration.go: the secrets-scope validation and  *)
(* lookup (sortAndValidateSecretsConfiguration, IsSecretAllowed,           *)
(* containsKey) and the access-control evaluation                          *)
(* (TranslateAccessControlSpec, IsOperationAllowedByAccessControlPolicy,   *)
(* isActionAllowed).                                                       *)
(*                                                                         *)
(* Go strings whose bytes the code inspects (actions, defaultAccess,       *)
(* operation paths, secret keys) are sequences of ASCII codes, so that     *)
(* strings.ToLower, strings.EqualFold, strings.HasPrefix, "/" + operation  *)
(* and the byte-wise order used by sort.Strings are computed, not assumed. *)
(* Strings the code only compares for equality (app ids, trust domains,    *)
(* store names, verb names) are TLA+ strings.                              *)
(* A Go pointer is a sequence of length 0 (nil) or 1 (the pointee).        *)
(***************************************************************************)
EXTENDS Integers, Sequences, FiniteSets, TLC

VARIABLES
    accessControlSpec,  \* Spec.AccessControlSpec of the configuration in force
    accessControlList,  \* *AccessControlList held by the runtime (nil: none configured)
    aclPhase,           \* "idle" | "returned": position of the caller of IsOperationAllowed...
    request,            \* arguments of the last IsOperationAllowedByAccessControlPolicy call
    outcome,            \* what that call produced: a return value or a panic
    rawScopes,          \* conf.Spec.Secrets.Scopes as deserialized, before validation
    conf,               \* *Configuration returned by Load*Configuration (nil on error)
    loadErr,            \* error returned by sortAndValidateSecretsConfiguration ("" = nil)
    secPhase,           \* "load" | "idle" | "returned"
    secRequest,         \* arguments of the last IsSecretAllowed call
    secAllowed          \* its return value

aclVars == <<accessControlSpec, accessControlList, aclPhase, request, outcome>>
secVars == <<rawScopes, conf, loadErr, secPhase, secRequest, secAllowed>>
vars == <<accessControlSpec, accessControlList, aclPhase, request, outcome,
          rawScopes, conf, loadErr, secPhase, secRequest, secAllowed>>

-----------------------------------------------------------------------------
(* Bounds of the model *)

\* longest list of operation rules in one app policy
MaxRules == 2
\* longest allowedSecrets / deniedSecrets list
MaxSecrets == 2
\* number of scopes that may follow the first one in the secrets document
MaxOtherScopes == 1

-----------------------------------------------------------------------------
(* Strings *)

Range(s) == {s[i] : i \in DOMAIN s}

SeqsUpTo(S, n) == UNION {[1..k -> S] : k \in 0..n}

\* strings.ToLower, on ASCII
ToLower(s) == [i \in DOMAIN s |-> IF s[i] \in 65..90 THEN s[i] + 32 ELSE s[i]]

\* strings.EqualFold, on ASCII: equality under simple case folding
EqualFold(s, t) ==
    /\ Len(s) = Len(t)
    /\ \A i \in DOMAIN s :
          \/ s[i] = t[i]
          \/ s[i] \in 65..90 /\ t[i] = s[i] + 32
          \/ s[i] \in 97..122 /\ t[i] = s[i] - 32

\* strings.HasPrefix(s, prefix)
HasPrefix(s, prefix) ==
    /\ Len(s) >= Len(prefix)
    /\ SubSeq(s, 1, Len(prefix)) = prefix

\* Go's < on strings: byte-wise lexicographic order
RECURSIVE StringLess(_, _)
StringLess(s, t) ==
    IF t = <<>> THEN FALSE
    ELSE IF s = <<>> THEN TRUE
    ELSE IF s[1] # t[1] THEN s[1] < t[1]
    ELSE StringLess(Tail(s), Tail(t))

\* "allow"
AllowAccess == <<97, 108, 108, 111, 119>>
\* "deny"
DenyAccess == <<100, 101, 110, 121>>
\* "allow"
AccessControlActionAllow == <<97, 108, 108, 111, 119>>
\* "deny"
AccessControlActionDeny == <<100, 101, 110, 121>>

\* further literals used as inputs
UpperAllow == <<65, 76, 76, 79, 87>>        \* "ALLOW"
UpperDeny == <<68, 69, 78, 89>>             \* "DENY"
Bogus == <<98, 111, 103, 117, 115>>         \* "bogus"
Empty == <<>>                               \* ""
Slash == <<47>>                             \* "/"

-----------------------------------------------------------------------------
(* Pointers *)

NilPtr == <<>>
PtrTo(v) == <<v>>
Deref(p) == p[1]


-----------------------------------------------------------------------------
(* common.HTTPExtension_Verb: the enum values the requests use, and String() *)

HTTPExtension_NONE == 0
HTTPExtension_GET == 1
HTTPExtension_POST == 3

VerbString(v) ==
    CASE v = HTTPExtension_NONE -> "NONE"
      [] v = HTTPExtension_GET -> "GET"
      [] v = HTTPExtension_POST -> "POST"

-----------------------------------------------------------------------------
(* Access control: TranslateAccessControlSpec *)

\* the map insertions of the loop over accessControlSpec.AppPolicies, in order:
\* a later policy with the same AppName overwrites the earlier one
RECURSIVE InsertPolicies(_, _)
InsertPolicies(policySpec, appPolicies) ==
    IF appPolicies = <<>> THEN policySpec
    ELSE LET appPolicySpec == Head(appPolicies)
             others == DOMAIN policySpec \ {appPolicySpec.AppName}
         IN  InsertPolicies(
                 [a \in others \cup {appPolicySpec.AppName} |->
                     IF a = appPolicySpec.AppName THEN appPolicySpec ELSE policySpec[a]],
                 Tail(appPolicies))

TranslateAccessControlSpec(spec) ==
    [DefaultAction |-> ToLower(spec.DefaultAction),
     PolicySpec    |-> InsertPolicies(<<>>, spec.AppPolicies)]

-----------------------------------------------------------------------------
(* Access control: IsOperationAllowedByAccessControlPolicy *)

\* a call either returns a bool or panics (Go runtime error)
Returned(b) == [panic |-> FALSE, ret |-> b]
Panicked == [panic |-> TRUE, ret |-> FALSE]

isActionAllowed_FailOpen(action) == ToLower(action) # AccessControlActionDeny

isActionAllowed(action) == ToLower(action) = AccessControlActionAllow

TrustDomainMismatch_LoggedOnly(policy, id) == FALSE

\* the test that makes the evaluation return false
TrustDomainMismatch(policy, id) ==
    policy.TrustDomain # "*" /\ policy.TrustDomain # id.trustDomain

\* the test that selects an operation rule for the request
OperationSelected(policyOperation, inputOperation) ==
    HasPrefix(policyOperation.Operation, inputOperation)

RECURSIVE VerbScan_NoWildcard(_, _, _, _)
VerbScan_NoWildcard(httpVerbs, httpVerb, ruleAction, action) ==
    IF httpVerbs = <<>> THEN action
    ELSE IF Head(httpVerbs) = VerbString(httpVerb) THEN ruleAction
    ELSE VerbScan_NoWildcard(Tail(httpVerbs), httpVerb, ruleAction, action)

\* the loop over policyOperation.HTTPVerb, with its break: the action after it
RECURSIVE VerbScan(_, _, _, _)
VerbScan(httpVerbs, httpVerb, ruleAction, action) ==
    IF httpVerbs = <<>> THEN action
    ELSE LET policyVerb == Head(httpVerbs)
         IN  IF policyVerb = VerbString(httpVerb) \/ policyVerb = "*"
             THEN ruleAction
             ELSE VerbScan(Tail(httpVerbs), httpVerb, ruleAction, action)

\* one iteration of the loop over policy.AppOperationActions: the action after it
ApplyOperation(policyOperation, inputOperation, httpVerb, action) ==
    IF OperationSelected(policyOperation, inputOperation)
    THEN IF httpVerb # HTTPExtension_NONE
         THEN VerbScan(policyOperation.HTTPVerb, httpVerb, policyOperation.Action, action)
         ELSE policyOperation.Action
    ELSE action

RECURSIVE OperationScan_FirstMatch(_, _, _, _)
OperationScan_FirstMatch(appOperationActions, inputOperation, httpVerb, action) ==
    IF appOperationActions = <<>> THEN action
    ELSE LET op == Head(appOperationActions)
             hit == /\ OperationSelected(op, inputOperation)
                    /\ \/ httpVerb = HTTPExtension_NONE
                       \/ VerbString(httpVerb) \in Range(op.HTTPVerb)
                       \/ "*" \in Range(op.HTTPVerb)
         IN  IF hit THEN op.Action
             ELSE OperationScan_FirstMatch(Tail(appOperationActions), inputOperation,
                                           httpVerb, action)

\* the loop over policy.AppOperationActions, in declared order, never left early
RECURSIVE OperationScan(_, _, _, _)
OperationScan(appOperationActions, inputOperation, httpVerb, action) ==
    IF appOperationActions = <<>> THEN action
    ELSE OperationScan(Tail(appOperationActions), inputOperation, httpVerb,
                       ApplyOperation(Head(appOperationActions), inputOperation,
                                      httpVerb, action))

IsOperationAllowed_DenyWithoutIdentity(id, srcAppID, operation, httpVerb, acl) ==
    IF acl = NilPtr THEN Panicked
    ELSE IF srcAppID \notin DOMAIN Deref(acl).PolicySpec
    THEN Returned(isActionAllowed(Deref(acl).DefaultAction))
    ELSE LET policy == Deref(acl).PolicySpec[srcAppID]
         IN  IF id = NilPtr THEN Returned(FALSE)
             ELSE IF TrustDomainMismatch(policy, Deref(id)) THEN Returned(FALSE)
             ELSE Returned(isActionAllowed(
                      OperationScan(policy.AppOperationActions, Slash \o operation,
                                    httpVerb, policy.DefaultAction)))

IsOperationAllowedByAccessControlPolicy(id, srcAppID, operation, httpVerb, acl) ==
    \* lines 313 and 317 read accessControlList.PolicySpec and .DefaultAction
    \* before the nil test of line 319: a nil pointer dereference, which panics
    IF acl = NilPtr THEN Panicked
    ELSE LET accessControl == Deref(acl)
         IN  IF srcAppID \notin DOMAIN accessControl.PolicySpec
             THEN Returned(isActionAllowed(accessControl.DefaultAction))
             ELSE LET policy == accessControl.PolicySpec[srcAppID]
                  IN  IF id = NilPtr
                      THEN Returned(isActionAllowed(policy.DefaultAction))
                      ELSE IF TrustDomainMismatch(policy, Deref(id))
                      THEN Returned(FALSE)
                      ELSE Returned(isActionAllowed(
                               OperationScan(policy.AppOperationActions,
                                             Slash \o operation, httpVerb,
                                             policy.DefaultAction)))

-----------------------------------------------------------------------------
(* Secrets: sortAndValidateSecretsConfiguration, IsSecretAllowed, containsKey *)

\* insertion of one string into a sorted list, keeping it sorted
RECURSIVE InsertSorted(_, _)
InsertSorted(x, sorted) ==
    IF sorted = <<>> THEN <<x>>
    ELSE IF StringLess(Head(sorted), x) THEN <<Head(sorted)>> \o InsertSorted(x, Tail(sorted))
    ELSE <<x>> \o sorted

SortStrings_Skipped(s) == s

\* sort.Strings: the list in increasing byte-wise order
RECURSIVE SortStrings(_)
SortStrings(s) ==
    IF s = <<>> THEN <<>>
    ELSE InsertSorted(Head(s), SortStrings(Tail(s)))

\* sort.Search(n, f) for f(i) = s[i] >= key; indices are 0-based as in Go
RECURSIVE BinarySearch(_, _, _, _)
BinarySearch(s, key, i, j) ==
    IF i < j
    THEN LET h == (i + j) \div 2
         IN  IF StringLess(s[h + 1], key)
             THEN BinarySearch(s, key, h + 1, j)
             ELSE BinarySearch(s, key, i, h)
    ELSE i

SearchStrings(s, key) == BinarySearch(s, key, 0, Len(s))

containsKey(s, key) ==
    LET index == SearchStrings(s, key)
    IN  index < Len(s) /\ s[index + 1] = key

IsSecretAllowed_CaseSensitive(c, key) ==
    LET access == IF c.DefaultAccess = DenyAccess THEN DenyAccess ELSE AllowAccess
    IN  IF Len(c.AllowedSecrets) # 0 THEN containsKey(c.AllowedSecrets, key)
        ELSE IF containsKey(c.DeniedSecrets, key) THEN FALSE
        ELSE access = AllowAccess

IsSecretAllowed(c, key) ==
    LET access == IF EqualFold(c.DefaultAccess, DenyAccess)
                  THEN DenyAccess ELSE AllowAccess
    IN  IF Len(c.AllowedSecrets) # 0 THEN containsKey(c.AllowedSecrets, key)
        ELSE IF containsKey(c.DeniedSecrets, key) THEN FALSE
        ELSE access = AllowAccess

ErrNone == ""
ErrRepeatedStoreName == "storeName is repeated in secrets configuration"
ErrDefaultAccess == "defaultAccess can be either allow or deny"

RECURSIVE ValidateLoop_NoInsert(_, _, _)
ValidateLoop_NoInsert(scopes, i, set) ==
    IF i > Len(scopes) THEN [err |-> ErrNone, scopes |-> scopes]
    ELSE LET scope == scopes[i]
         IN  IF scope.StoreName \in set
             THEN [err |-> ErrRepeatedStoreName, scopes |-> scopes]
             ELSE IF /\ scope.DefaultAccess # Empty
                     /\ ~EqualFold(scope.DefaultAccess, AllowAccess)
                     /\ ~EqualFold(scope.DefaultAccess, DenyAccess)
             THEN [err |-> ErrDefaultAccess, scopes |-> scopes]
             ELSE ValidateLoop_NoInsert(
                      [scopes EXCEPT ![i].AllowedSecrets = SortStrings(@),
                                     ![i].DeniedSecrets = SortStrings(@)],
                      i + 1, set)

\* the loop of sortAndValidateSecretsConfiguration from its i-th scope on; set is
\* the sets.String of the store names seen. The sorts act on the slices'
\* backing arrays, so the scopes of the configuration are sorted in place.
RECURSIVE ValidateLoop(_, _, _)
ValidateLoop(scopes, i, set) ==
    IF i > Len(scopes) THEN [err |-> ErrNone, scopes |-> scopes]
    ELSE LET scope == scopes[i]
         IN  IF scope.StoreName \in set
             THEN [err |-> ErrRepeatedStoreName, scopes |-> scopes]
             ELSE IF /\ scope.DefaultAccess # Empty
                     /\ ~EqualFold(scope.DefaultAccess, AllowAccess)
                     /\ ~EqualFold(scope.DefaultAccess, DenyAccess)
             THEN [err |-> ErrDefaultAccess, scopes |-> scopes]
             ELSE ValidateLoop(
                      [scopes EXCEPT ![i].AllowedSecrets = SortStrings(@),
                                     ![i].DeniedSecrets = SortStrings(@)],
                      i + 1, set \cup {scope.StoreName})

sortAndValidateSecretsConfiguration(scopes) == ValidateLoop(scopes, 1, {})

-----------------------------------------------------------------------------
(* Inputs *)

\* "/x", "/x/y"
RulePaths == {Slash \o <<120>>, Slash \o <<120, 47, 121>>}
\* "x", "x/y", "y"
Operations == {<<120>>, <<120, 47, 121>>, <<121>>}
VerbLists == {<<"GET">>, <<"*">>, <<"POST", "GET">>}
RuleActions == {AccessControlActionAllow, AccessControlActionDeny}

AppOperations == [Operation : RulePaths, HTTPVerb : VerbLists, Action : RuleActions]

AppPolicySpecs ==
    [AppName : {"A"},
     DefaultAction : {AccessControlActionAllow, AccessControlActionDeny},
     TrustDomain : {"*", "td1"},
     AppOperationActions : SeqsUpTo(AppOperations, MaxRules)]

\* an earlier entry for the same app, overwritten by the map insertion
StalePolicy ==
    [AppName |-> "A", DefaultAction |-> AccessControlActionAllow,
     TrustDomain |-> "*", AppOperationActions |-> <<>>]

AccessControlSpecs ==
    [DefaultAction : {AccessControlActionAllow, UpperAllow, AccessControlActionDeny,
                      Empty, Bogus},
     AppPolicies : {<<>>}]
    \cup
    [DefaultAction : {UpperAllow, AccessControlActionDeny},
     AppPolicies : {<<p>> : p \in AppPolicySpecs}
                   \cup {<<StalePolicy, p>> : p \in
                             {q \in AppPolicySpecs : q.AppOperationActions = <<>>}}]

SpiffeIDs ==
    {NilPtr} \cup
    {PtrTo([trustDomain |-> t, namespace |-> "ns", appID |-> "A"]) : t \in {"td1", "td2"}}

SrcAppIDs == {"A", "B"}
HTTPVerbs == {HTTPExtension_NONE, HTTPExtension_GET, HTTPExtension_POST}

\* "a", "ab", "b"
Keys == {<<97>>, <<97, 98>>, <<98>>}

FirstScopes ==
    [DefaultAccess : {Empty, AllowAccess, DenyAccess, UpperDeny, Bogus},
     StoreName : {"s1"},
     AllowedSecrets : SeqsUpTo(Keys, MaxSecrets),
     DeniedSecrets : SeqsUpTo(Keys, MaxSecrets)]

OtherScopes ==
    [DefaultAccess : {Empty, UpperAllow, Bogus},
     StoreName : {"s1", "s2"},
     AllowedSecrets : {<<>>},
     DeniedSecrets : {<<>>}]

SecretsDocuments ==
    {<<>>} \cup
    {<<f>> \o o : f \in FirstScopes, o \in SeqsUpTo(OtherScopes, MaxOtherScopes)}

-----------------------------------------------------------------------------
(* State machine *)

\* the zero value of AccessControlSpec: no accessControl section configured
NoAccessControlSpec == [DefaultAction |-> Empty, AppPolicies |-> <<>>]
NoRequest == [id |-> NilPtr, srcAppID |-> "", operation |-> Empty,
              httpVerb |-> HTTPExtension_NONE]
NoOutcome == Returned(FALSE)
NoSecRequest == [scope |-> 0, key |-> Empty]

AclIdle ==
    /\ accessControlSpec = NoAccessControlSpec
    /\ accessControlList = NilPtr
    /\ aclPhase = "idle"
    /\ request = NoRequest
    /\ outcome = NoOutcome

SecIdle ==
    /\ rawScopes = <<>>
    /\ conf = NilPtr
    /\ loadErr = ErrNone
    /\ secPhase = "load"
    /\ secRequest = NoSecRequest
    /\ secAllowed = FALSE

Init == AclIdle /\ SecIdle

\* the runtime builds the access control list of its configuration, once
Translate(spec) ==
    /\ aclPhase = "idle"
    /\ accessControlList = NilPtr
    /\ accessControlSpec' = spec
    /\ accessControlList' = PtrTo(TranslateAccessControlSpec(spec))
    /\ UNCHANGED <<aclPhase, request, outcome>>
    /\ UNCHANGED secVars

\* one inbound call is checked against the access control list in force
Invoke(id, srcAppID, operation, httpVerb) ==
    /\ aclPhase = "idle"
    /\ request' = [id |-> id, srcAppID |-> srcAppID, operation |-> operation,
                   httpVerb |-> httpVerb]
    /\ outcome' = IsOperationAllowedByAccessControlPolicy(
                      id, srcAppID, operation, httpVerb, accessControlList)
    /\ aclPhase' = "returned"
    /\ UNCHANGED <<accessControlSpec, accessControlList>>
    /\ UNCHANGED secVars

\* the caller takes the decision; a panicked call has no caller to return to
InvokeDone ==
    /\ aclPhase = "returned"
    /\ ~outcome.panic
    /\ aclPhase' = "idle"
    /\ request' = NoRequest
    /\ outcome' = NoOutcome
    /\ UNCHANGED <<accessControlSpec, accessControlList>>
    /\ UNCHANGED secVars

\* LoadStandaloneConfiguration / LoadKubernetesConfiguration after unmarshalling
LoadConfiguration(scopes) ==
    /\ secPhase = "load"
    /\ LET r == sortAndValidateSecretsConfiguration(scopes)
       IN  /\ rawScopes' = scopes
           /\ loadErr' = r.err
           /\ conf' = IF r.err = ErrNone THEN PtrTo([Scopes |-> r.scopes]) ELSE NilPtr
           /\ secPhase' = IF r.err = ErrNone THEN "idle" ELSE "failed"
    /\ UNCHANGED <<secRequest, secAllowed>>
    /\ UNCHANGED aclVars

\* a secret read is checked against a scope of the loaded configuration
SecretCall(i, key) ==
    /\ secPhase = "idle"
    /\ i \in DOMAIN Deref(conf).Scopes
    /\ secRequest' = [scope |-> i, key |-> key]
    /\ secAllowed' = IsSecretAllowed(Deref(conf).Scopes[i], key)
    /\ secPhase' = "returned"
    /\ UNCHANGED <<rawScopes, conf, loadErr>>
    /\ UNCHANGED aclVars

SecretDone ==
    /\ secPhase = "returned"
    /\ secPhase' = "idle"
    /\ secRequest' = NoSecRequest
    /\ secAllowed' = FALSE
    /\ UNCHANGED <<rawScopes, conf, loadErr>>
    /\ UNCHANGED aclVars

TranslateStep ==
    /\ accessControlList = NilPtr
    /\ \E spec \in AccessControlSpecs : Translate(spec)

InvokeStep ==
    \E id \in SpiffeIDs, srcAppID \in SrcAppIDs, operation \in Operations,
       httpVerb \in HTTPVerbs : Invoke(id, srcAppID, operation, httpVerb)

LoadStep ==
    /\ secPhase = "load"
    /\ \E scopes \in SecretsDocuments : LoadConfiguration(scopes)

SecretStep == \E i \in 1..(MaxOtherScopes + 1), key \in Keys : SecretCall(i, key)

AclNext == TranslateStep \/ InvokeStep \/ InvokeDone

SecretsNext == LoadStep \/ SecretStep \/ SecretDone

\* access control evaluation alone
AclSpec == Init /\ [][AclNext]_vars

\* secrets configuration alone
SecretsSpec == Init /\ [][SecretsNext]_vars

-----------------------------------------------------------------------------
(* Properties of the access control evaluation (checked under AclSpec) *)

Max(S) == CHOOSE m \in S : \A n \in S : n <= m

\* the last call has returned or panicked and its arguments are in request
Evaluated == aclPhase = "returned"

CallerHasPolicy ==
    /\ accessControlList # NilPtr
    /\ request.srcAppID \in DOMAIN Deref(accessControlList).PolicySpec

CallerPolicy == Deref(accessControlList).PolicySpec[request.srcAppID]

\* the call went through the scan of the operation rules
RulesScanned ==
    /\ Evaluated
    /\ CallerHasPolicy
    /\ request.id # NilPtr
    /\ \/ CallerPolicy.TrustDomain = "*"
       \/ CallerPolicy.TrustDomain = Deref(request.id).trustDomain

InputOperation == Slash \o request.operation

VerbAccepted(rule) ==
    \/ request.httpVerb = HTTPExtension_NONE
    \/ VerbString(request.httpVerb) \in Range(rule.HTTPVerb)
    \/ "*" \in Range(rule.HTTPVerb)

IsAllow(action) == ToLower(action) = AccessControlActionAllow

\* C1: a call with no access control list (nil) returns true, whatever the
\* identity, caller, operation and verb are, and does not fail instead.
C1_NilAclReturnsTrue ==
    (Evaluated /\ accessControlList = NilPtr) => outcome = Returned(TRUE)

\* C2: when the caller has a policy, the identity is present and the policy's
\* trust domain is neither "*" nor the identity's, the call returns false.
C2_TrustDomainMismatchDenies ==
    (/\ Evaluated
     /\ CallerHasPolicy
     /\ request.id # NilPtr
     /\ CallerPolicy.TrustDomain # "*"
     /\ CallerPolicy.TrustDomain # Deref(request.id).trustDomain)
    => outcome = Returned(FALSE)

\* a mismatching call whose policy default and whose every rule would allow it
C2_Witness ==
    /\ Evaluated
    /\ CallerHasPolicy
    /\ request.id # NilPtr
    /\ CallerPolicy.TrustDomain = "td1"
    /\ Deref(request.id).trustDomain = "td2"
    /\ IsAllow(CallerPolicy.DefaultAction)
    /\ Len(CallerPolicy.AppOperationActions) = 2
    /\ \A i \in DOMAIN CallerPolicy.AppOperationActions :
          LET rule == CallerPolicy.AppOperationActions[i]
          IN  /\ rule.Operation = InputOperation
              /\ IsAllow(rule.Action)
              /\ VerbAccepted(rule)
    /\ outcome = Returned(FALSE)

\* the rules the specification considers: pathPrefix is a prefix of "/" + operation
C3_Considered ==
    {i \in DOMAIN CallerPolicy.AppOperationActions :
        LET rule == CallerPolicy.AppOperationActions[i]
        IN  HasPrefix(InputOperation, rule.Operation) /\ VerbAccepted(rule)}

\* C3: a rule is considered exactly when its pathPrefix is a string-prefix of
\* "/" + operation: the decision is the action of the last such rule whose
\* verbs accept the request, and the policy default when there is none; rules
\* whose pathPrefix is not a prefix of "/" + operation never change it.
C3_RuleConsideredIffPrefixOfRequest ==
    RulesScanned =>
        outcome = Returned(IsAllow(
            IF C3_Considered = {} THEN CallerPolicy.DefaultAction
            ELSE CallerPolicy.AppOperationActions[Max(C3_Considered)].Action))

\* the rules the scan selects for the request and whose verbs accept it
MatchingRules ==
    {i \in DOMAIN CallerPolicy.AppOperationActions :
        LET rule == CallerPolicy.AppOperationActions[i]
        IN  OperationSelected(rule, InputOperation) /\ VerbAccepted(rule)}

C5_ExamplePolicy ==
    [AppName |-> "A", DefaultAction |-> AccessControlActionDeny, TrustDomain |-> "*",
     AppOperationActions |->
        <<[Operation |-> Slash \o <<120>>, HTTPVerb |-> <<"GET">>,
           Action |-> AccessControlActionAllow]>>]

C5_ExampleCall ==
    /\ RulesScanned
    /\ CallerPolicy = C5_ExamplePolicy
    /\ request.srcAppID = "A"
    /\ request.operation = <<120>>

C9_AbsentIdentityGetsPolicyDefault ==
    (Evaluated /\ CallerHasPolicy /\ request.id = NilPtr) =>
        outcome = Returned(IsAllow(CallerPolicy.DefaultAction))

\* no identity, a pinned trust domain, a deny rule for the very request: allowed
C9_Witness ==
    /\ Evaluated
    /\ CallerHasPolicy
    /\ request.id = NilPtr
    /\ CallerPolicy.TrustDomain = "td1"
    /\ IsAllow(CallerPolicy.DefaultAction)
    /\ \E i \in DOMAIN CallerPolicy.AppOperationActions :
          LET rule == CallerPolicy.AppOperationActions[i]
          IN  /\ rule.Operation = InputOperation
              /\ VerbAccepted(rule)
              /\ ~IsAllow(rule.Action)
    /\ outcome = Returned(TRUE)

\* C10: for a translated list and a caller without a policy in it, the call
\* returns true exactly when the configured ACL-wide defaultAction equals
\* "allow" up to case; "deny", "" and malformed values give false.
C10_UnmappedCallerGetsAclDefault ==
    (/\ Evaluated
     /\ accessControlList # NilPtr
     /\ request.srcAppID \notin DOMAIN Deref(accessControlList).PolicySpec)
    => outcome = Returned(EqualFold(accessControlSpec.DefaultAction,
                                    AccessControlActionAllow))

\* caller B has no policy, A has one that denies; the default "ALLOW" allows B
C10_Witness ==
    /\ Evaluated
    /\ accessControlList # NilPtr
    /\ "A" \in DOMAIN Deref(accessControlList).PolicySpec
    /\ ~IsAllow(Deref(accessControlList).PolicySpec["A"].DefaultAction)
    /\ request.srcAppID = "B"
    /\ accessControlSpec.DefaultAction = UpperAllow
    /\ outcome = Returned(TRUE)

-----------------------------------------------------------------------------
(* Properties of the secrets configuration (checked under SecretsSpec) *)

SecretEvaluated == secPhase = "returned"

\* the scope the last IsSecretAllowed call was made on, as it was declared
DeclaredScope == rawScopes[secRequest.scope]

\* C6: for a validated scope with a non-empty allowedSecrets, declared in any
\* order, IsSecretAllowed(key) is true exactly when key is in allowedSecrets,
\* whatever deniedSecrets and defaultAccess hold.
C6_AllowListIsAuthoritative ==
    (SecretEvaluated /\ DeclaredScope.AllowedSecrets # <<>>) =>
        secAllowed = (secRequest.key \in Range(DeclaredScope.AllowedSecrets))

\* an allow list declared out of order, the key in it, denied and default deny
C6_Witness ==
    /\ SecretEvaluated
    /\ Len(DeclaredScope.AllowedSecrets) = 2
    /\ StringLess(DeclaredScope.AllowedSecrets[2], DeclaredScope.AllowedSecrets[1])
    /\ secRequest.key = DeclaredScope.AllowedSecrets[2]
    /\ secRequest.key \in Range(DeclaredScope.DeniedSecrets)
    /\ DeclaredScope.DefaultAccess = DenyAccess
    /\ secAllowed = TRUE

\* C7: for a validated scope with an empty allowedSecrets, IsSecretAllowed(key)
\* is false when key is in deniedSecrets, and otherwise true exactly when
\* defaultAccess is not deny (up to case), the empty defaultAccess allowing.
C7_DenyListThenDefault ==
    (SecretEvaluated /\ DeclaredScope.AllowedSecrets = <<>>) =>
        secAllowed =
            IF secRequest.key \in Range(DeclaredScope.DeniedSecrets) THEN FALSE
            ELSE ToLower(DeclaredScope.DefaultAccess) # DenyAccess

\* no allow list, the key not denied, defaultAccess "DENY": refused
C7_Witness ==
    /\ SecretEvaluated
    /\ DeclaredScope.AllowedSecrets = <<>>
    /\ DeclaredScope.DeniedSecrets # <<>>
    /\ secRequest.key \notin Range(DeclaredScope.DeniedSecrets)
    /\ DeclaredScope.DefaultAccess = UpperDeny
    /\ secAllowed = FALSE

SharedStoreName(scopes) ==
    \E i, j \in DOMAIN scopes : i # j /\ scopes[i].StoreName = scopes[j].StoreName

InvalidDefaultAccess(scopes) ==
    \E i \in DOMAIN scopes :
        /\ scopes[i].DefaultAccess # Empty
        /\ ToLower(scopes[i].DefaultAccess) \notin {AllowAccess, DenyAccess}

\* C8: validation fails if and only if two scopes share a storeName or some
\* defaultAccess is non-empty and neither "allow" nor "deny" up to case.
C8_ValidationFailsIff ==
    secPhase # "load" =>
        /\ (loadErr # ErrNone) <=>
              (SharedStoreName(rawScopes) \/ InvalidDefaultAccess(rawScopes))
        /\ (conf = NilPtr) <=> (loadErr # ErrNone)

\* two scopes named alike, every defaultAccess valid: the load fails
C8_Witness ==
    /\ secPhase = "failed"
    /\ SharedStoreName(rawScopes)
    /\ ~InvalidDefaultAccess(rawScopes)
    /\ loadErr = ErrRepeatedStoreName
    /\ conf = NilPtr

=============================================================================
